---------------------------- MODULE Spec2Model ----------------------------
(***************************************************************************)
(* A model of the Wordle solver of src/wordle.py (class WordleSolver).     *)
(*                                                                         *)
(* A letter is a one-character string, a word a tuple of WORD_LENGTH       *)
(* letters, a feedback a tuple of WORD_LENGTH feedback symbols.  Lists     *)
(* (self.answers, self.all_words, self.sorted_chars) are sequences, the    *)
(* dictionaries char_frequencies and candidate_words are functions, the    *)
(* set known_chars is a set.                                               *)
(*                                                                         *)
(* Two drivers run the solver's methods:                                   *)
(*   Spec      the interactive loop WordleSolver.solve;                    *)
(*   UnitSpec  direct calls of _get_feedback_pattern and                   *)
(*             _word_matches_feedback on arbitrary words.                  *)
(***************************************************************************)
EXTENDS Naturals, Integers, Sequences, FiniteSets

VARIABLES
    answers,                 \* self.answers: the remaining possible answers
    all_words,               \* self.all_words: every legal guess
    trie,                    \* self.trie
    char_frequencies,        \* self.char_frequencies
    sorted_chars,            \* self.sorted_chars
    candidate_words,         \* self.candidate_words: word -> score
    known_chars,             \* self.known_chars
    use_information_theory,  \* self.use_information_theory
    search_all_words,        \* self.search_all_words
    pc,                      \* where the driver stands
    guess,                   \* solve's local `guess`
    ret,                     \* the value returned by the last direct method call
    guessed_chars,           \* history: every letter of every guess pruned with
    truthful_for             \* history: the initial answers X for which every
                             \* feedback so far was _get_feedback_pattern(guess, X)

vars == <<answers, all_words, trie, char_frequencies, sorted_chars,
          candidate_words, known_chars, use_information_theory,
          search_all_words, pc, guess, ret, guessed_chars, truthful_for>>

---------------------------------------------------------------------------
(* Program constants                                                       *)

WORD_LENGTH == 5
UNIQUE_LETTER_BONUS == 10000
KNOWN_CHAR_BONUS == 10000
CORRECT_POSITION == "X"
WRONG_POSITION == "x"
NOT_IN_WORD == "."

\* Python's None, written into answer_chars for a consumed letter.
None == "None"

\* chr(i) for i in range(ord('a'), ord('z') + 1), in that order.
ValidChars ==
    <<"a", "b", "c", "d", "e", "f", "g", "h", "i", "j", "k", "l", "m",
      "n", "o", "p", "q", "r", "s", "t", "u", "v", "w", "x", "y", "z">>

---------------------------------------------------------------------------
(* Bounds of the model                                                     *)

\* Number of answers.txt lines (a prefix of AnswerPool).
NumAnswers == 4
\* Number of guesses.txt lines (a prefix of GuessPool).
NumGuesses == 1
\* UnitSpec draws its words from the first NumUnitLetters letters.
NumUnitLetters == 2

AnswerPool ==
    << <<"s","t","a","l","e">>, <<"s","l","a","t","e">>,
       <<"t","e","a","s","e">>, <<"l","a","b","e","l">>,
       <<"b","e","l","l","s">>, <<"l","e","a","s","t">>,
       <<"e","a","s","e","l">> >>

GuessPool ==
    << <<"s","e","l","l","s">>, <<"t","a","b","l","e">>,
       <<"b","a","b","e","l">>, <<"a","s","s","e","t">> >>

\* A typed word that is in neither list, and a result string of the wrong length.
BadGuess == <<"z","z","z","z","z">>
BadFeedback == <<"X","X","X","X">>

---------------------------------------------------------------------------
(* Helpers for Python's built-ins                                          *)

Range(s) == {s[i] : i \in DOMAIN s}

Positions == 1..WORD_LENGTH

Min(S) == CHOOSE m \in S : \A n \in S : m <= n

\* `char in word`
InWord(char, word) == \E i \in DOMAIN word : word[i] = char

\* list.index(x): the first position holding x
IndexOf(list, x) == Min({j \in DOMAIN list : list[j] = x})

\* The sequences that list the elements of S once each, in any order
\* (what list(a_set) may return).
RECURSIVE Orderings(_)
Orderings(S) ==
    IF S = {} THEN {<<>>}
    ELSE UNION {{<<x>> \o rest : rest \in Orderings(S \ {x})} : x \in S}

FeedbackSymbols == {CORRECT_POSITION, WRONG_POSITION, NOT_IN_WORD}

\* get_user_feedback's validity test.
ValidFeedback(feedback) ==
    /\ Len(feedback) = WORD_LENGTH
    /\ \A i \in DOMAIN feedback : feedback[i] \in FeedbackSymbols

AllFeedbacks == [Positions -> FeedbackSymbols]

---------------------------------------------------------------------------
(* _get_feedback_pattern                                                   *)

\* First pass: feedback after marking the correct positions.
FirstPassFeedback(g, answer) ==
    [i \in Positions |-> IF g[i] = answer[i] THEN CORRECT_POSITION ELSE ""]

\* First pass: answer_chars after marking the correct positions as used.
FirstPassAnswerChars(g, answer) ==
    [i \in Positions |-> IF g[i] = answer[i] THEN None ELSE answer[i]]

\* Faulty variant of SecondPass: a letter marked x is not marked as used.
RECURSIVE SecondPassNoConsume(_, _, _, _)
SecondPassNoConsume(i, g, fb, answer_chars) ==
    IF i > WORD_LENGTH THEN fb
    ELSE IF fb[i] = CORRECT_POSITION
         THEN SecondPassNoConsume(i + 1, g, fb, answer_chars)
    ELSE IF InWord(g[i], answer_chars)
         THEN SecondPassNoConsume(i + 1, g, [fb EXCEPT ![i] = WRONG_POSITION], answer_chars)
    ELSE SecondPassNoConsume(i + 1, g, [fb EXCEPT ![i] = NOT_IN_WORD], answer_chars)

\* Second pass, from position i on (left to right).
RECURSIVE SecondPass(_, _, _, _)
SecondPass(i, g, fb, answer_chars) ==
    IF i > WORD_LENGTH THEN fb
    ELSE IF fb[i] = CORRECT_POSITION
         THEN SecondPass(i + 1, g, fb, answer_chars)
    ELSE IF InWord(g[i], answer_chars)
         THEN SecondPass(i + 1, g,
                         [fb EXCEPT ![i] = WRONG_POSITION],
                         [answer_chars EXCEPT ![IndexOf(answer_chars, g[i])] = None])
    ELSE SecondPass(i + 1, g, [fb EXCEPT ![i] = NOT_IN_WORD], answer_chars)

_get_feedback_pattern(g, answer) ==
    SecondPass(1, g, FirstPassFeedback(g, answer), FirstPassAnswerChars(g, answer))

---------------------------------------------------------------------------
(* _word_matches_feedback                                                  *)

\* Faulty variant of PositionRejects: a letter marked `.` rejects every word that
\* holds it, known or not.
PositionRejectsNaive(word, g, feedback, position, known) ==
    LET feedback_char == feedback[position]
        guessed_char == g[position]
    IN  \/ /\ feedback_char = NOT_IN_WORD
           /\ InWord(guessed_char, word)
        \/ /\ feedback_char = WRONG_POSITION
           /\ ~InWord(guessed_char, word)
        \/ /\ feedback_char = WRONG_POSITION
           /\ word[position] = guessed_char
        \/ /\ feedback_char = CORRECT_POSITION
           /\ word[position] # guessed_char

\* The five early `return False` tests of the loop body at one position.
PositionRejects(word, g, feedback, position, known) ==
    LET feedback_char == feedback[position]
        guessed_char == g[position]
    IN  \/ /\ feedback_char = NOT_IN_WORD
           /\ InWord(guessed_char, word)
           /\ guessed_char \notin known
        \/ /\ feedback_char = WRONG_POSITION
           /\ ~InWord(guessed_char, word)
        \/ /\ feedback_char = WRONG_POSITION
           /\ word[position] = guessed_char
        \/ /\ feedback_char = NOT_IN_WORD
           /\ word[position] = guessed_char
           /\ guessed_char \in known
        \/ /\ feedback_char = CORRECT_POSITION
           /\ word[position] # guessed_char

_word_matches_feedback(word, g, feedback, known) ==
    \A position \in Positions : ~PositionRejects(word, g, feedback, position, known)

---------------------------------------------------------------------------
(* prune_answers                                                           *)

\* Faulty variant of PruneKnownChars: only the letters marked x are added.
PruneKnownCharsWrongOnly(known, g, feedback) ==
    known \cup {g[position] : position \in
                   {p \in Positions : feedback[p] = WRONG_POSITION}}

\* First pass: known_chars after adding every letter marked X or x.
PruneKnownChars(known, g, feedback) ==
    known \cup {g[position] : position \in
                   {p \in Positions : feedback[p] \in {CORRECT_POSITION, WRONG_POSITION}}}

\* First pass: char_frequencies after deleting every guessed letter.
PruneCharFrequencies(freqs, g) ==
    [c \in DOMAIN freqs \ Range(g) |-> freqs[c]]

\* Faulty variant of FilterAnswers: the loop runs over self.all_words.
FilterAllWords(words, g, feedback, known) ==
    SelectSeq(all_words, LAMBDA word : _word_matches_feedback(word, g, feedback, known))

\* Second pass: the words of `words` that match, in order, tested against
\* the known_chars the first pass left.
FilterAnswers(words, g, feedback, known) ==
    SelectSeq(words, LAMBDA word : _word_matches_feedback(word, g, feedback, known))

---------------------------------------------------------------------------
(* build_trie, _insert_word_to_trie                                        *)
(*                                                                         *)
(* A trie of nested dictionaries is the set of its nodes, each named by    *)
(* the path of letters leading to it (the root is <<>>), with the set of   *)
(* nodes that hold the key TRIE_END_MARKER.  `letter in node` is           *)
(* Append(path, letter) \in nodes.                                         *)

EmptyTrie == [nodes |-> {<<>>}, done |-> {}]

_insert_word_to_trie(t, word) ==
    [nodes |-> t.nodes \cup {SubSeq(word, 1, k) : k \in 0..Len(word)},
     done  |-> t.done \cup {word}]

RECURSIVE InsertAll(_, _)
InsertAll(t, words) ==
    IF words = <<>> THEN t
    ELSE InsertAll(_insert_word_to_trie(t, Head(words)), Tail(words))

build_trie(words) == InsertAll(EmptyTrie, words)

---------------------------------------------------------------------------
(* calculate_char_frequencies                                              *)

\* char_counts[char]: the number of entries of `words` that contain char.
CharCount(char, words) ==
    Cardinality({i \in DOMAIN words : InWord(char, words[i])})

\* The keys of char_frequencies in the dictionary's order.  The dictionary
\* is created in a..z order and keys are only ever deleted, so its order is
\* ValidChars restricted to its keys.
KeysInOrder(freqs) == SelectSeq(ValidChars, LAMBDA c : c \in DOMAIN freqs)

\* sorted(keys, key=count, reverse=True): a stable sort, so keys of equal
\* count keep the order of `keys`.  A count is at most Len(words); the keys
\* are laid out count by count from there down to 0.
RECURSIVE SortedDown(_, _, _)
SortedDown(keys, words, n) ==
    SelectSeq(keys, LAMBDA c : CharCount(c, words) = n)
    \o (IF n = 0 THEN <<>> ELSE SortedDown(keys, words, n - 1))

SortedByCountDesc(keys, words) == SortedDown(keys, words, Len(words))

\* self.sorted_chars after the call: the keys with a positive count.
NewSortedChars(freqs, words) ==
    SelectSeq(SortedByCountDesc(KeysInOrder(freqs), words),
              LAMBDA c : CharCount(c, words) > 0)

\* Faulty variant of NewCharFrequencies: a zero-count key is set to 0, not deleted.
NewCharFrequenciesKeepZero(freqs, words) ==
    [c \in DOMAIN freqs |-> CharCount(c, words)]

\* self.char_frequencies after the call: zero-count keys deleted, the others
\* set to their count.
NewCharFrequencies(freqs, words) ==
    [c \in {k \in DOMAIN freqs : CharCount(k, words) > 0} |-> CharCount(c, words)]

---------------------------------------------------------------------------
(* _calculate_expected_remaining, _calculate_word_score                    *)
(*                                                                         *)
(* A float is the exact fraction <<numerator, denominator>>.               *)

\* pattern_counts: feedback pattern -> number of answers giving it.
PatternCounts(g, words) ==
    LET patterns == {_get_feedback_pattern(g, words[i]) : i \in DOMAIN words}
    IN  [p \in patterns |->
            Cardinality({i \in DOMAIN words : _get_feedback_pattern(g, words[i]) = p})]

RECURSIVE SumSquares(_, _)
SumSquares(counts, keys) ==
    IF keys = {} THEN 0
    ELSE LET k == CHOOSE x \in keys : TRUE
         IN  counts[k] * counts[k] + SumSquares(counts, keys \ {k})

\* Faulty variant of _calculate_expected_remaining: divides by the number of patterns.
ExpectedRemainingPerPattern(g, words) ==
    LET pattern_counts == PatternCounts(g, words)
    IN  IF Len(words) = 0 THEN <<0, 1>>
        ELSE <<SumSquares(pattern_counts, DOMAIN pattern_counts),
               Cardinality(DOMAIN pattern_counts)>>

_calculate_expected_remaining(g, words) ==
    LET pattern_counts == PatternCounts(g, words)
        total == Len(words)
    IN  IF total = 0 THEN <<0, 1>>
        ELSE <<SumSquares(pattern_counts, DOMAIN pattern_counts), total>>

\* The frequency loop over the letters of word, from position i on.
RECURSIVE FrequencyLoop(_, _, _, _)
FrequencyLoop(word, i, freqs, known) ==
    IF i > Len(word) THEN 0
    ELSE (IF word[i] \in DOMAIN freqs THEN freqs[word[i]] ELSE 0)
         + (IF word[i] \in known THEN KNOWN_CHAR_BONUS ELSE 0)
         + FrequencyLoop(word, i + 1, freqs, known)

\* Faulty variant of FrequencyScore: the loop runs over set(word).
FrequencyScoreDistinct(word, freqs, known) ==
    LET letters == SelectSeq(ValidChars, LAMBDA c : c \in Range(word))
    IN  FrequencyLoop(letters, 1, freqs, known)
        + (IF Cardinality(Range(word)) = WORD_LENGTH THEN UNIQUE_LETTER_BONUS ELSE 0)

FrequencyScore(word, freqs, known) ==
    FrequencyLoop(word, 1, freqs, known)
    + (IF Cardinality(Range(word)) = WORD_LENGTH THEN UNIQUE_LETTER_BONUS ELSE 0)

\* -expected_remaining + bonus, bonus = 0.001 when word is a remaining answer.
InformationScore(word, words) ==
    LET expected_remaining == _calculate_expected_remaining(word, words)
        bonus == IF word \in Range(words) THEN 1 ELSE 0
    IN  <<bonus * expected_remaining[2] - 1000 * expected_remaining[1],
          1000 * expected_remaining[2]>>

_calculate_word_score(word, info, words, freqs, known) ==
    IF info THEN InformationScore(word, words)
    ELSE <<FrequencyScore(word, freqs, known), 1>>

---------------------------------------------------------------------------
(* find_candidate_words, _search_trie                                      *)

\* The words _search_trie records below the node `current_word`.
RECURSIVE _search_trie(_, _, _)
_search_trie(t, current_word, available_chars) ==
    (IF current_word \in t.done THEN {current_word} ELSE {})
    \cup UNION {_search_trie(t, Append(current_word, available_chars[i]), available_chars) :
                  i \in {j \in DOMAIN available_chars :
                            Append(current_word, available_chars[j]) \in t.nodes}}

\* Faulty variant of CandidateKeys: the search order leaves out known_chars.
CandidateKeysSortedOnly(info, all, universe, t, known_order, sorted) ==
    IF info /\ all THEN Range(universe)
    ELSE _search_trie(t, <<>>, sorted)

\* The keys find_candidate_words leaves in candidate_words, given the order
\* list(self.known_chars) came out in.
CandidateKeys(info, all, universe, t, known_order, sorted) ==
    IF info /\ all THEN Range(universe)
    ELSE _search_trie(t, <<>>, known_order \o sorted)

---------------------------------------------------------------------------
(* The solver object after __init__                                        *)

InitialCharFrequencies == [c \in Range(ValidChars) |-> 1]

NoScores == [w \in {} |-> <<0, 1>>]

\* __init__ with answers.txt holding `answer_lines` and guesses.txt
\* `guess_lines`: _load_word_lists appends every answer to both lists, then
\* every guess to all_words.
Constructed(answer_lines, guess_lines) ==
    /\ answers = answer_lines
    /\ all_words = answer_lines \o guess_lines
    /\ trie = EmptyTrie
    /\ char_frequencies = InitialCharFrequencies
    /\ sorted_chars = <<>>
    /\ candidate_words = NoScores
    /\ known_chars = {}
    /\ use_information_theory \in BOOLEAN
    /\ search_all_words \in BOOLEAN

Init ==
    /\ \E n \in 1..NumAnswers :
          Constructed(SubSeq(AnswerPool, 1, n), SubSeq(GuessPool, 1, NumGuesses))
    /\ pc = "loop"
    /\ guess = None
    /\ ret = None
    /\ guessed_chars = {}
    /\ truthful_for = Range(answers)

---------------------------------------------------------------------------
(* solve: one pass of the loop body up to the prompt                       *)

\* Faulty variant of LoopExit: the loop also ends with no answer left.
LoopExitAtMostOne(words) == Len(words) <= 1

\* `if len(self.answers) == 1: ... break`
LoopExit(words) == Len(words) = 1

SolveRound ==
    /\ pc = "loop"
    /\ trie' = build_trie(answers)
    /\ sorted_chars' = NewSortedChars(char_frequencies, answers)
    /\ char_frequencies' = NewCharFrequencies(char_frequencies, answers)
    /\ \E known_order \in Orderings(known_chars) :
          candidate_words' =
              [w \in CandidateKeys(use_information_theory, search_all_words,
                                   all_words, trie', known_order, sorted_chars') |->
                  _calculate_word_score(w, use_information_theory, answers,
                                        char_frequencies', known_chars)]
    /\ pc' = IF LoopExit(answers) THEN "solved" ELSE "guess"
    /\ UNCHANGED <<answers, all_words, known_chars, use_information_theory,
                   search_all_words, guess, ret, guessed_chars, truthful_for>>

\* get_user_guess: a typed word that is in all_words is returned.
GetUserGuess ==
    /\ pc = "guess"
    /\ \E typed \in Range(all_words) :
          guess' = typed
    /\ pc' = "feedback"
    /\ UNCHANGED <<answers, all_words, trie, char_frequencies, sorted_chars,
                   candidate_words, known_chars, use_information_theory,
                   search_all_words, ret, guessed_chars, truthful_for>>

\* get_user_guess: any other word is refused and the prompt repeats.
RejectUserGuess ==
    /\ pc = "guess"
    /\ BadGuess \notin Range(all_words)
    /\ UNCHANGED vars

\* prune_answers(guess, feedback), as a change of the solver's fields.
prune_answers(g, feedback) ==
    /\ known_chars' = PruneKnownChars(known_chars, g, feedback)
    /\ char_frequencies' = PruneCharFrequencies(char_frequencies, g)
    /\ answers' = FilterAnswers(answers, g, feedback, known_chars')

\* get_user_feedback returns a well-formed result, and solve prunes with it.
GetUserFeedbackAndPrune ==
    /\ pc = "feedback"
    /\ \E feedback \in AllFeedbacks :
          /\ ValidFeedback(feedback)
          /\ prune_answers(guess, feedback)
          /\ truthful_for' =
                {X \in truthful_for : feedback = _get_feedback_pattern(guess, X)}
    /\ guessed_chars' = guessed_chars \cup Range(guess)
    /\ pc' = "loop"
    /\ UNCHANGED <<all_words, trie, sorted_chars, candidate_words,
                   use_information_theory, search_all_words, guess, ret>>

\* get_user_feedback: a malformed result is refused and the prompt repeats.
RejectUserFeedback ==
    /\ pc = "feedback"
    /\ ~ValidFeedback(BadFeedback)
    /\ UNCHANGED vars

Next ==
    \/ SolveRound
    \/ GetUserGuess
    \/ RejectUserGuess
    \/ GetUserFeedbackAndPrune
    \/ RejectUserFeedback

Spec == Init /\ [][Next]_vars

---------------------------------------------------------------------------
(* Direct calls of the two pure methods                                    *)

UnitLetters == {ValidChars[i] : i \in 1..NumUnitLetters}

UnitWords == [Positions -> UnitLetters]

\* A solver whose only remaining answer is X, about to be asked about the
\* guess g, with known_chars as earlier prune_answers calls may have left
\* it (a known letter has been guessed, so it has left char_frequencies).
UnitInit ==
    /\ \E X \in UnitWords, g \in UnitWords :
          /\ answers = <<X>>
          /\ all_words = <<X, g>>
          /\ guess = g
    /\ known_chars \in SUBSET UnitLetters
    /\ guessed_chars = known_chars
    /\ char_frequencies = [c \in Range(ValidChars) \ known_chars |-> 1]
    /\ trie = EmptyTrie
    /\ sorted_chars = <<>>
    /\ candidate_words = NoScores
    /\ use_information_theory = FALSE
    /\ search_all_words = FALSE
    /\ pc = "unit"
    /\ ret = None
    /\ truthful_for = Range(answers)

\* ret = self._get_feedback_pattern(guess, answers[0])
CallGetFeedbackPattern ==
    /\ pc = "unit"
    /\ ret' = _get_feedback_pattern(guess, answers[1])
    /\ pc' = "unit_feedback"
    /\ UNCHANGED <<answers, all_words, trie, char_frequencies, sorted_chars,
                   candidate_words, known_chars, use_information_theory,
                   search_all_words, guess, guessed_chars, truthful_for>>

\* ret = self._word_matches_feedback(answers[0], guess, <that feedback>)
CallWordMatchesFeedback ==
    /\ pc = "unit_feedback"
    /\ ret' = [feedback |-> ret,
               matches  |-> _word_matches_feedback(answers[1], guess, ret, known_chars)]
    /\ pc' = "unit_matched"
    /\ UNCHANGED <<answers, all_words, trie, char_frequencies, sorted_chars,
                   candidate_words, known_chars, use_information_theory,
                   search_all_words, guess, guessed_chars, truthful_for>>

UnitNext ==
    \/ CallGetFeedbackPattern
    \/ CallWordMatchesFeedback

UnitSpec == UnitInit /\ [][UnitNext]_vars

---------------------------------------------------------------------------
(* Vocabulary of the properties                                            *)

\* The letters that occur in some remaining answer.
LettersOfAnswers == UNION {Range(answers[i]) : i \in DOMAIN answers}

\* The number of positions of `word` that hold `char`.
Occurrences(char, word) == Cardinality({i \in DOMAIN word : word[i] = char})

\* The number of answers.txt lines the solver was constructed with.
InitialAnswerCount == Cardinality({w \in Range(all_words) : w \in Range(AnswerPool)})

\* calculate_char_frequencies and find_candidate_words have run on the
\* current answers and known_chars (solve stands at a prompt or has ended).
Scored == pc \in {"guess", "feedback", "solved"}

\* The letters a feedback marks X or x.
MarkedPresent(g, feedback) ==
    {c \in Range(g) : \E i \in Positions : g[i] = c /\ feedback[i] # NOT_IN_WORD}

---------------------------------------------------------------------------
(* C1 *)

\* C1: every initial answer X for which every feedback given so far was
\* _get_feedback_pattern(guess, X) is still in self.answers; under truthful
\* feedback the answers never run out.
C1_TruthfulAnswerRetained == truthful_for \subseteq Range(answers)

\* Two or more answers were pruned away by truthful feedback on a guess that
\* repeats a letter, one copy of which the feedback marks as not in the word.
C1_Witness ==
    /\ pc = "loop"
    /\ guessed_chars # {}
    /\ Len(answers) + 2 <= InitialAnswerCount
    /\ \E X \in truthful_for :
          LET feedback == _get_feedback_pattern(guess, X)
          IN  \E i \in Positions :
                 feedback[i] = NOT_IN_WORD /\ InWord(guess[i], X)

---------------------------------------------------------------------------
(* C2 *)

\* C2 as stated: _word_matches_feedback(answer, guess,
\* _get_feedback_pattern(guess, answer)) is true when known_chars holds only
\* letters of the answer found by earlier guesses (possibly none), without the
\* letters the current feedback marks.
C2_MatchesWithEarlierKnown ==
    (pc = "unit_matched" /\ known_chars \subseteq Range(answers[1])) => ret.matches

\* C2 amended: the same call is true whenever known_chars already contains
\* every letter the feedback marks X or x (which is how prune_answers leaves
\* known_chars before it filters).
C2_MatchesWithCurrentKnown ==
    (pc = "unit_matched" /\ MarkedPresent(guess, ret.feedback) \subseteq known_chars)
        => ret.matches

\* The amended case with a repeated letter: a position marked `.` whose
\* letter is nevertheless in the answer.
C2_Witness ==
    /\ pc = "unit_matched"
    /\ MarkedPresent(guess, ret.feedback) \subseteq known_chars
    /\ \E i \in Positions :
          ret.feedback[i] = NOT_IN_WORD /\ InWord(guess[i], answers[1])
    /\ ret.matches

---------------------------------------------------------------------------
(* C3 *)

\* C3: the feedback has WORD_LENGTH symbols, X exactly where guess and
\* answer agree, and for every letter no more positions of the guess marked
\* X or x than the answer has occurrences of it.
C3_FeedbackCounts ==
    pc = "unit_feedback" =>
        /\ Len(ret) = WORD_LENGTH
        /\ \A i \in Positions : ret[i] \in FeedbackSymbols
        /\ \A i \in Positions : (ret[i] = CORRECT_POSITION) <=> (guess[i] = answers[1][i])
        /\ \A c \in Range(guess) :
              Cardinality({i \in Positions : guess[i] = c /\ ret[i] # NOT_IN_WORD})
                  <= Occurrences(c, answers[1])

\* A guess with more copies of a letter than the answer has: one copy is
\* marked x, a later one `.`, and another position is marked X.
C3_Witness ==
    /\ pc = "unit_feedback"
    /\ \E i, j, k \in Positions :
          /\ i < j
          /\ guess[i] = guess[j]
          /\ ret[i] = WRONG_POSITION
          /\ ret[j] = NOT_IN_WORD
          /\ ret[k] = CORRECT_POSITION

---------------------------------------------------------------------------
(* C4 *)

\* C4: solve has stopped only with exactly one answer left, never stands at
\* a prompt (to take a guess or a result and prune) with exactly one answer
\* left, and once stopped nothing changes any more.
C4_StopsExactlyAtOne ==
    /\ [](pc = "solved" => Len(answers) = 1)
    /\ [](pc \in {"guess", "feedback"} => Len(answers) # 1)
    /\ [][pc = "solved" => UNCHANGED vars]_vars

\* solve stopped after at least one prune.
C4_Witness == pc = "solved" /\ guessed_chars # {} /\ InitialAnswerCount > 1

---------------------------------------------------------------------------
(* C5 *)

\* C5: with no answer left the session does not go on to another round: it
\* never stands at the prompt for a guess or a result with self.answers empty.
C5_NoRoundOnEmptyAnswers == ~(answers = <<>> /\ pc \in {"guess", "feedback"})

---------------------------------------------------------------------------
(* C6 *)

\* C6: every step leaves self.answers a sub-list of what it was (no word
\* added, the size never grows), and self.answers stays within all_words.
C6_AnswersOnlyShrink ==
    /\ [](Range(answers) \subseteq Range(all_words))
    /\ [][/\ Range(answers') \subseteq Range(answers)
          /\ Len(answers') <= Len(answers)]_vars

\* A prune with a feedback that is truthful for no answer removed some
\* answers and kept others.
C6_Witness ==
    /\ pc = "loop"
    /\ truthful_for = {}
    /\ 0 < Len(answers)
    /\ Len(answers) < InitialAnswerCount

---------------------------------------------------------------------------
(* C7 *)

\* All answers give the same feedback pattern against g.
SamePattern(g) ==
    \A i, j \in DOMAIN answers :
        _get_feedback_pattern(g, answers[i]) = _get_feedback_pattern(g, answers[j])

\* C7: with answers left, the expected remaining count of every legal guess
\* is at most the number of answers, and equal to it exactly when all
\* answers give the same pattern.
C7_ExpectedRemainingBound ==
    answers # <<>> =>
        \A g \in Range(all_words) :
            LET expected == _calculate_expected_remaining(g, answers)
            IN  /\ expected[2] > 0
                /\ expected[1] <= Len(answers) * expected[2]
                /\ (expected[1] = Len(answers) * expected[2]) <=> SamePattern(g)

\* Information scoring ran on several answers, with one guess that tells
\* none of them apart and another that does.
C7_Witness ==
    /\ Scored
    /\ use_information_theory
    /\ Len(answers) >= 2
    /\ \E g, h \in DOMAIN candidate_words :
          /\ SamePattern(g)
          /\ ~SamePattern(h)
          /\ _calculate_expected_remaining(h, answers)[1]
                < Len(answers) * _calculate_expected_remaining(h, answers)[2]

---------------------------------------------------------------------------
(* C8 *)

\* The table value of a letter, 0 without an entry.
TableValue(c) == IF c \in DOMAIN char_frequencies THEN char_frequencies[c] ELSE 0

RECURSIVE SumOver(_, _)
SumOver(S, f) ==
    IF S = {} THEN 0
    ELSE LET x == CHOOSE y \in S : TRUE IN f[x] + SumOver(S \ {x}, f)

UniqueBonus(w) == IF Cardinality(Range(w)) = WORD_LENGTH THEN UNIQUE_LETTER_BONUS ELSE 0

KnownBonus(w) ==
    KNOWN_CHAR_BONUS * Cardinality({i \in DOMAIN w : w[i] \in known_chars})

\* C8 as stated: under frequency scoring the score of a word is the table
\* value of each of its distinct letters taken once, plus KNOWN_CHAR_BONUS
\* per letter in known_chars, plus UNIQUE_LETTER_BONUS for WORD_LENGTH
\* distinct letters.
C8_ScoreOverDistinctLetters ==
    (Scored /\ ~use_information_theory) =>
        \A w \in DOMAIN candidate_words :
            candidate_words[w] =
                <<SumOver(Range(w), [c \in Range(w) |-> TableValue(c)])
                  + KnownBonus(w) + UniqueBonus(w), 1>>

\* C8 amended: the table value is taken once per position of the word, so a
\* letter that occurs n times contributes n times its value.
C8_ScoreOverPositions ==
    (Scored /\ ~use_information_theory) =>
        \A w \in DOMAIN candidate_words :
            candidate_words[w] =
                <<SumOver(Range(w), [c \in Range(w) |-> Occurrences(c, w) * TableValue(c)])
                  + KnownBonus(w) + UniqueBonus(w), 1>>

\* A scored word that repeats a letter of the table and holds a known letter.
C8_Witness ==
    /\ Scored
    /\ ~use_information_theory
    /\ \E w \in DOMAIN candidate_words :
          /\ \E c \in DOMAIN char_frequencies : Occurrences(c, w) >= 2
          /\ \E c \in known_chars : InWord(c, w)

---------------------------------------------------------------------------
(* C9 *)

\* C9: when the trie search is used, the words found are exactly the
\* remaining answers, the allow-list known_chars + sorted_chars holds every
\* letter of every remaining answer, and no letter is in it twice.
C9_TrieFindsAllAnswers ==
    (Scored /\ ~(use_information_theory /\ search_all_words)) =>
        /\ DOMAIN candidate_words = Range(answers)
        /\ LettersOfAnswers \subseteq known_chars \cup Range(sorted_chars)
        /\ known_chars \cap Range(sorted_chars) = {}
        /\ \A i, j \in DOMAIN sorted_chars : sorted_chars[i] = sorted_chars[j] => i = j

\* After a prune, several answers remain and one of them holds a letter that
\* was guessed, so only known_chars brings the letter into the allow-list.
C9_Witness ==
    /\ Scored
    /\ ~(use_information_theory /\ search_all_words)
    /\ Len(answers) >= 2
    /\ \E c \in known_chars : c \in LettersOfAnswers /\ c \notin Range(sorted_chars)

---------------------------------------------------------------------------
(* C10 *)

\* C10: after calculate_char_frequencies, the table has an entry for exactly
\* the letters that occur in some remaining answer and in no guess pruned
\* with so far, each valued with the number of remaining answers holding it,
\* and sorted_chars lists the table's letters once each by non-increasing
\* value.
C10_TableAfterRecount ==
    Scored =>
        /\ DOMAIN char_frequencies = LettersOfAnswers \ guessed_chars
        /\ \A c \in DOMAIN char_frequencies :
              char_frequencies[c] =
                  Cardinality({i \in DOMAIN answers : c \in Range(answers[i])})
        /\ Range(sorted_chars) = DOMAIN char_frequencies
        /\ Len(sorted_chars) = Cardinality(DOMAIN char_frequencies)
        /\ \A i, j \in DOMAIN sorted_chars :
              i < j => char_frequencies[sorted_chars[i]] >= char_frequencies[sorted_chars[j]]

\* A recount after a prune that left several answers: one letter was dropped
\* for having been guessed though answers still hold it, another (never
\* guessed) for being in no answer any more.
C10_Witness ==
    /\ Scored
    /\ Len(answers) >= 2
    /\ \E c \in guessed_chars : c \in LettersOfAnswers
    /\ \E w \in Range(all_words) :
          \E d \in Range(w) \ guessed_chars :
              /\ w \in Range(AnswerPool)
              /\ d \notin LettersOfAnswers
              /\ d \notin DOMAIN char_frequencies

=============================================================================
